---- MODULE Spec2Model ----
(***************************************************************************)
(* Host/device orchestration of the MRG32K3A generator of rocRAND          *)
(* (library/src/rng/mrg32k3a.hpp).                                          *)
(*                                                                         *)
(* The host object (seed, offset, initialized flag, Poisson manager)       *)
(* launches kernels onto one HIP stream.  A launch returns as soon as the  *)
(* kernel is queued; the device runs the queued kernels one after the      *)
(* other, and inside one kernel the work-items run in any interleaving.    *)
(*                                                                         *)
(* Scaling.  The launch geometry is scaled down, keeping its shape:        *)
(*   HCC  build: 256 threads x 1024 blocks  ->  2 threads x 1 block        *)
(*   NVCC build: 128 threads x  128 blocks  ->  1 thread  x 1 block        *)
(*   pool size : 1024 * 256 engines         ->  1 * 2 engines              *)
(* so that, as in the source, the HCC launch covers the pool exactly and   *)
(* the NVCC launch covers a strict prefix of it.                           *)
(*                                                                         *)
(* External collaborators (device_engines.hpp, distributions.hpp, the HIP  *)
(* runtime) are modelled at their boundary: an engine state is the triple  *)
(* (seed, subsequence, position in the subsequence), a raw draw is         *)
(* identified by the state the engine is left in, and a distribution       *)
(* functor is a tagged record of its arguments.                            *)
(***************************************************************************)
EXTENDS Integers, Sequences, FiniteSets, TLC

\* ------------------------------------------------------------------ bounds
\* Largest request size (data_size) a generation call is given.
MaxN == 3
\* Number of host API calls made on the generator after its construction.
MaxCalls == 3
\* Number of generation calls made in one epoch.
MaxGenCalls == 2
\* Kernels the stream holds at a time, the running one included.
MaxQueue == 4
\* Largest request size of a launch examined on its own, and the number of
\* such launches.
MaxLaunchN == 5
MaxLaunches == 1
\* Raw draws of one work-item in one launch that are followed: more than a
\* launch of the sizes above needs; a loop that never ends is cut there.
MaxDraws == 10
\* Range of `unsigned int` (2^32 in the source), scaled down.
UIntRange == 16

\* Seeds handed to the constructor and to set_seed (0 is the remapped one).
SeedInputs == {0, 1}
\* Offsets handed to the constructor and to set_offset.
OffsetInputs == {0, 1}
\* Lambdas handed to generate_poisson.
LambdaInputs == {1, 2}
\* Request sizes: all of them, the two largest (an even and an odd one), and
\* the largest.
Sizes == 0 .. MaxN
TailSizes == {MaxN - 1, MaxN}
OneSize == {MaxN}
LaunchSizes == 0 .. MaxLaunchN
\* Request sizes of the range of size_t near and above the range of
\* unsigned int: the largest index, and the size whose half is the largest
\* index.
WideSizes == {UIntRange - 1, 2 * UIntRange - 1}
\* Slots of the buffer a generation call is given: enough for every request.
BufferSize == IF MaxLaunchN > MaxN THEN MaxLaunchN ELSE MaxN

\* ------------------------------------------------------- program constants
ROCRAND_MRG32K3A_DEFAULT_SEED == 12345
\* Default arguments of the constructor (line 115-116).
DefaultSeedArg == 12345
DefaultOffsetArg == 0
m_engines_size == 1 * 2

ROCRAND_STATUS_SUCCESS == "ROCRAND_STATUS_SUCCESS"
ROCRAND_STATUS_LAUNCH_FAILURE == "ROCRAND_STATUS_LAUNCH_FAILURE"
\* The status poisson.set_lambda throws (spec: InvalidParameter).
ROCRAND_STATUS_SET_LAMBDA_FAILED == "ROCRAND_STATUS_OUT_OF_RANGE"

Platforms == {"hcc", "nvcc"}

VARIABLES
    platform,               \* build: "nvcc" iff __HIP_PLATFORM_NVCC__ is defined
    m_seed,                 \* base_type::m_seed
    m_offset,               \* base_type::m_offset
    m_engines_initialized,  \* the initialized flag
    poisson,                \* poisson_distribution_manager: the cached lambda
    engines,                \* device memory m_engines[0 .. m_engines_size)
    data,                   \* the output buffer of the generation call whose
                            \* kernel ran last (each call is given its own)
    queue,                  \* kernels launched on m_stream, not yet started
    run,                    \* the kernel the device is executing
    lanes,                  \* per work-item registers of the running kernel
    status,                 \* status returned by the last host call
    call,                   \* the last host call: operation and arguments
    ncalls,                 \* host calls made so far
    drawn,                  \* history: raw draws each engine slot handed out
                            \* since the init kernel last constructed it
    count                   \* history: kernels launched so far (see NoLaunches)

vars == << platform, m_seed, m_offset, m_engines_initialized, poisson,
           engines, data, queue, run, lanes, status, call, ncalls, drawn,
           count >>

hostVars == << m_seed, m_offset, m_engines_initialized, poisson, queue,
               status, call, ncalls, count >>
deviceVars == << engines, data, run, lanes, drawn >>

\* ------------------------------------------------------- launch geometry
\* init(): lines 168-174, generate(): 199-205, generate_normal(): 234-240.
threads(p) == IF p = "nvcc" THEN 1 ELSE 2
max_blocks(p) == IF p = "nvcc" THEN 1 ELSE 1
blocks(p) == max_blocks(p)

\* The work-items <<hipBlockIdx_x, hipThreadIdx_x>> of one launch.
Grid(p) == (0 .. blocks(p) - 1) \X (0 .. threads(p) - 1)
\* hipBlockIdx_x * hipBlockDim_x + hipThreadIdx_x, as unsigned int.
EngineId(p, w) == (w[1] * threads(p) + w[2]) % UIntRange
\* hipGridDim_x * hipBlockDim_x, as unsigned int.
Stride(p) == (blocks(p) * threads(p)) % UIntRange

PoolSlots == 0 .. m_engines_size - 1
DataSlots == 0 .. BufferSize - 1

\* ---------------------------------------------------------- device engine
\* Contents of device memory that no kernel has written (hipMalloc does not
\* initialise it): an indeterminate bit pattern, equal to no constructed
\* state.  Drawing from it yields indeterminate values again.
Indeterminate == [seed |-> -1, sub |-> -1, pos |-> -1]

\* mrg32k3a_device_engine(seed, subsequence, offset): the state at position
\* `offset` of subsequence `subsequence` of the stream of `seed`.
mrg32k3a_device_engine(seed, subsequence, offset) ==
    [seed |-> seed, sub |-> subsequence, pos |-> offset]

\* The state after one call of engine().
Advance(e) ==
    IF e = Indeterminate THEN Indeterminate ELSE [e EXCEPT !.pos = @ + 1]

\* Advance applied d times.
RECURSIVE Discard(_, _)
Discard(e, d) == IF d <= 0 THEN e ELSE Discard(Advance(e), d - 1)

\* The raw value engine() returns: identified by the state it leaves.
Raw(e) == Advance(e)

\* ----------------------------------------------------------- distributions
NoLambda == -1
Blank == [dist |-> "none", lambda |-> NoLambda, comp |-> 0, raws |-> {}]

mrg_uniform_distribution == [name |-> "uniform", lambda |-> NoLambda]
mrg_normal_distribution == [name |-> "normal", lambda |-> NoLambda]
mrg_log_normal_distribution == [name |-> "log_normal", lambda |-> NoLambda]
\* poisson.dis: the functor of the cached entry.
PoissonDis(p) == [name |-> "poisson", lambda |-> p.lambda]
NoDistribution == [name |-> "none", lambda |-> NoLambda]

\* distribution(engine()): one output from one raw draw.
Apply1(d, r) ==
    [dist |-> d.name, lambda |-> d.lambda, comp |-> 0, raws |-> {r}]

\* distribution(engine(), engine()): a pair of outputs, each a function of
\* both raw draws.  C++ leaves the order in which the two arguments are
\* evaluated unspecified, so the pair of draws is recorded unordered.
Apply2(d, r1, r2) ==
    [x |-> [dist |-> d.name, lambda |-> d.lambda, comp |-> 1, raws |-> {r1, r2}],
     y |-> [dist |-> d.name, lambda |-> d.lambda, comp |-> 2, raws |-> {r1, r2}]]

\* ----------------------------------------------------------------- kernels
NoKernel ==
    [name |-> "none", seed |-> 0, offset |-> 0, n |-> 0, dist |-> NoDistribution]
InitKernel(seed, offset) ==
    [name |-> "init_engines_kernel", seed |-> seed, offset |-> offset,
     n |-> 0, dist |-> NoDistribution]
\* A generation kernel has no seed or offset argument: its seed and offset
\* fields are a history annotation, the m_seed and m_offset of the generator
\* when the kernel was launched.
GenerateKernel(h, n, d) ==
    [name |-> "generate_kernel", seed |-> h.seed, offset |-> h.offset,
     n |-> n, dist |-> d]
GenerateNormalKernel(h, n, d) ==
    [name |-> "generate_normal_kernel", seed |-> h.seed, offset |-> h.offset,
     n |-> n, dist |-> d]

\* Registers of a work-item before its first statement, and of a device that
\* has run nothing yet.  `made` is a history annotation: the raw draws the
\* work-item has made in this launch, in order.
RegStart ==
    [pc |-> "start", index |-> 0, engine |-> Indeterminate, made |-> << >>]
RegDone ==
    [pc |-> "done", index |-> 0, engine |-> Indeterminate, made |-> << >>]

\* Device memory accesses.  The launches of the source stay inside the pool
\* and inside the buffer; an access outside reads indeterminate contents and
\* its write is dropped.
Load(mem, i) == IF i \in DOMAIN mem THEN mem[i] ELSE Indeterminate
Store(mem, i, v) == IF i \in DOMAIN mem THEN [mem EXCEPT ![i] = v] ELSE mem

\* One step of work-item w of init_engines_kernel (lines 43-44).
init_engines_kernel(p, k, w, reg, eng, dat) ==
    LET engine_id == EngineId(p, w) IN
    [reg |-> [reg EXCEPT !.pc = "done"],
     engines |-> Store(eng, engine_id,
                       mrg32k3a_device_engine(k.seed, engine_id, k.offset)),
     data |-> dat,
     raws |-> << >>]

\* generate_kernel whose loop tests index < n after the body (do ... while).
generate_kernel_do_while(p, k, w, reg, eng, dat) ==
    LET engine_id == EngineId(p, w)
        stride == Stride(p)
    IN  IF reg.pc = "start"
        THEN [reg |-> [reg EXCEPT !.pc = "loop", !.index = engine_id,
                                  !.engine = Load(eng, engine_id)],
              engines |-> eng, data |-> dat, raws |-> << >>]
        ELSE IF reg.index < k.n \/ reg.index = engine_id
        THEN [reg |-> [reg EXCEPT !.index = (reg.index + stride) % UIntRange,
                                  !.engine = Advance(reg.engine)],
              engines |-> eng,
              data |-> Store(dat, reg.index, Apply1(k.dist, Raw(reg.engine))),
              raws |-> << Raw(reg.engine) >>]
        ELSE [reg |-> [reg EXCEPT !.pc = "done"],
              engines |-> Store(eng, engine_id, reg.engine),
              data |-> dat, raws |-> << >>]

\* generate_kernel whose loop runs while index <= n.
generate_kernel_loop_to_n(p, k, w, reg, eng, dat) ==
    LET engine_id == EngineId(p, w)
        stride == Stride(p)
    IN  IF reg.pc = "start"
        THEN [reg |-> [reg EXCEPT !.pc = "loop", !.index = engine_id,
                                  !.engine = Load(eng, engine_id)],
              engines |-> eng, data |-> dat, raws |-> << >>]
        ELSE IF reg.index <= k.n
        THEN [reg |-> [reg EXCEPT !.index = (reg.index + stride) % UIntRange,
                                  !.engine = Advance(reg.engine)],
              engines |-> eng,
              data |-> Store(dat, reg.index, Apply1(k.dist, Raw(reg.engine))),
              raws |-> << Raw(reg.engine) >>]
        ELSE [reg |-> [reg EXCEPT !.pc = "done"],
              engines |-> Store(eng, engine_id, reg.engine),
              data |-> dat, raws |-> << >>]

\* generate_kernel whose work-items all use engines[0].
generate_kernel_shared_engine(p, k, w, reg, eng, dat) ==
    LET engine_id == EngineId(p, w)
        stride == Stride(p)
    IN  IF reg.pc = "start"
        THEN [reg |-> [reg EXCEPT !.pc = "loop", !.index = engine_id,
                                  !.engine = Load(eng, 0)],
              engines |-> eng, data |-> dat, raws |-> << >>]
        ELSE IF reg.index < k.n
        THEN [reg |-> [reg EXCEPT !.index = (reg.index + stride) % UIntRange,
                                  !.engine = Advance(reg.engine)],
              engines |-> eng,
              data |-> Store(dat, reg.index, Apply1(k.dist, Raw(reg.engine))),
              raws |-> << Raw(reg.engine) >>]
        ELSE [reg |-> [reg EXCEPT !.pc = "done"],
              engines |-> Store(eng, 0, reg.engine),
              data |-> dat, raws |-> << >>]

\* generate_kernel whose loop advances index by one instead of by stride.
generate_kernel_unit_stride(p, k, w, reg, eng, dat) ==
    LET engine_id == EngineId(p, w)
    IN  IF reg.pc = "start"
        THEN [reg |-> [reg EXCEPT !.pc = "loop", !.index = engine_id,
                                  !.engine = Load(eng, engine_id)],
              engines |-> eng, data |-> dat, raws |-> << >>]
        ELSE IF reg.index < k.n
        THEN [reg |-> [reg EXCEPT !.index = (reg.index + 1) % UIntRange,
                                  !.engine = Advance(reg.engine)],
              engines |-> eng,
              data |-> Store(dat, reg.index, Apply1(k.dist, Raw(reg.engine))),
              raws |-> << Raw(reg.engine) >>]
        ELSE [reg |-> [reg EXCEPT !.pc = "done"],
              engines |-> Store(eng, engine_id, reg.engine),
              data |-> dat, raws |-> << >>]

\* generate_kernel without its last statement: the engine is not saved back.
generate_kernel_without_save(p, k, w, reg, eng, dat) ==
    LET engine_id == EngineId(p, w)
        stride == Stride(p)
    IN  IF reg.pc = "start"
        THEN [reg |-> [reg EXCEPT !.pc = "loop", !.index = engine_id,
                                  !.engine = Load(eng, engine_id)],
              engines |-> eng, data |-> dat, raws |-> << >>]
        ELSE IF reg.index < k.n
        THEN [reg |-> [reg EXCEPT !.index = (reg.index + stride) % UIntRange,
                                  !.engine = Advance(reg.engine)],
              engines |-> eng,
              data |-> Store(dat, reg.index, Apply1(k.dist, Raw(reg.engine))),
              raws |-> << Raw(reg.engine) >>]
        ELSE [reg |-> [reg EXCEPT !.pc = "done"],
              engines |-> eng, data |-> dat, raws |-> << >>]

\* One step of work-item w of generate_kernel (lines 53-68):
\*   start: compute engine_id, index, stride and load the engine;
\*   loop : one iteration of the while loop, or, when index >= n, the save.
generate_kernel(p, k, w, reg, eng, dat) ==
    LET engine_id == EngineId(p, w)
        stride == Stride(p)
    IN  IF reg.pc = "start"
        THEN [reg |-> [reg EXCEPT !.pc = "loop", !.index = engine_id,
                                  !.engine = Load(eng, engine_id)],
              engines |-> eng, data |-> dat, raws |-> << >>]
        ELSE IF reg.index < k.n
        THEN [reg |-> [reg EXCEPT !.index = (reg.index + stride) % UIntRange,
                                  !.engine = Advance(reg.engine)],
              engines |-> eng,
              data |-> Store(dat, reg.index, Apply1(k.dist, Raw(reg.engine))),
              raws |-> << Raw(reg.engine) >>]
        ELSE [reg |-> [reg EXCEPT !.pc = "done"],
              engines |-> Store(eng, engine_id, reg.engine),
              data |-> dat, raws |-> << >>]

\* generate_normal_kernel whose tail draws from a copy of the engine: the two
\* draws of the tail are not part of the state saved.
generate_normal_kernel_tail_on_copy(p, k, w, reg, eng, dat) ==
    LET engine_id == EngineId(p, w)
        stride == Stride(p)
        r1 == Raw(reg.engine)
        r2 == Raw(Advance(reg.engine))
        result == Apply2(k.dist, r1, r2)
    IN  IF reg.pc = "start"
        THEN [reg |-> [reg EXCEPT !.pc = "loop", !.index = engine_id,
                                  !.engine = Load(eng, engine_id)],
              engines |-> eng, data |-> dat, raws |-> << >>]
        ELSE IF reg.pc = "loop" /\ reg.index < (k.n \div 2)
        THEN [reg |-> [reg EXCEPT !.index = (reg.index + stride) % UIntRange,
                                  !.engine = Advance(Advance(reg.engine))],
              engines |-> eng,
              data |-> Store(Store(dat, 2 * reg.index, result.x),
                             2 * reg.index + 1, result.y),
              raws |-> << r1, r2 >>]
        ELSE IF reg.pc = "loop" /\ engine_id = 0 /\ (k.n % 2) > 0
        THEN [reg |-> [reg EXCEPT !.pc = "save"],
              engines |-> eng,
              data |-> Store(dat, k.n - 1, result.x),
              raws |-> << r1, r2 >>]
        ELSE [reg |-> [reg EXCEPT !.pc = "done"],
              engines |-> Store(eng, engine_id, reg.engine),
              data |-> dat, raws |-> << >>]

\* generate_normal_kernel whose sweep writes data[index] and data[index + 1].
generate_normal_kernel_unscaled_index(p, k, w, reg, eng, dat) ==
    LET engine_id == EngineId(p, w)
        stride == Stride(p)
        r1 == Raw(reg.engine)
        r2 == Raw(Advance(reg.engine))
        result == Apply2(k.dist, r1, r2)
    IN  IF reg.pc = "start"
        THEN [reg |-> [reg EXCEPT !.pc = "loop", !.index = engine_id,
                                  !.engine = Load(eng, engine_id)],
              engines |-> eng, data |-> dat, raws |-> << >>]
        ELSE IF reg.pc = "loop" /\ reg.index < (k.n \div 2)
        THEN [reg |-> [reg EXCEPT !.index = (reg.index + stride) % UIntRange,
                                  !.engine = Advance(Advance(reg.engine))],
              engines |-> eng,
              data |-> Store(Store(dat, reg.index, result.x),
                             reg.index + 1, result.y),
              raws |-> << r1, r2 >>]
        ELSE IF reg.pc = "loop" /\ engine_id = 0 /\ (k.n % 2) > 0
        THEN [reg |-> [reg EXCEPT !.pc = "save",
                                  !.engine = Advance(Advance(reg.engine))],
              engines |-> eng,
              data |-> Store(dat, k.n - 1, result.x),
              raws |-> << r1, r2 >>]
        ELSE [reg |-> [reg EXCEPT !.pc = "done"],
              engines |-> Store(eng, engine_id, reg.engine),
              data |-> dat, raws |-> << >>]

\* generate_normal_kernel whose tail is not restricted to engine_id 0: every
\* work-item makes the extra pair of draws and writes the last slot.
generate_normal_kernel_tail_by_all(p, k, w, reg, eng, dat) ==
    LET engine_id == EngineId(p, w)
        stride == Stride(p)
        r1 == Raw(reg.engine)
        r2 == Raw(Advance(reg.engine))
        result == Apply2(k.dist, r1, r2)
    IN  IF reg.pc = "start"
        THEN [reg |-> [reg EXCEPT !.pc = "loop", !.index = engine_id,
                                  !.engine = Load(eng, engine_id)],
              engines |-> eng, data |-> dat, raws |-> << >>]
        ELSE IF reg.pc = "loop" /\ reg.index < (k.n \div 2)
        THEN [reg |-> [reg EXCEPT !.index = (reg.index + stride) % UIntRange,
                                  !.engine = Advance(Advance(reg.engine))],
              engines |-> eng,
              data |-> Store(Store(dat, 2 * reg.index, result.x),
                             2 * reg.index + 1, result.y),
              raws |-> << r1, r2 >>]
        ELSE IF reg.pc = "loop" /\ (k.n % 2) > 0
        THEN [reg |-> [reg EXCEPT !.pc = "save",
                                  !.engine = Advance(Advance(reg.engine))],
              engines |-> eng,
              data |-> Store(dat, k.n - 1, result.x),
              raws |-> << r1, r2 >>]
        ELSE [reg |-> [reg EXCEPT !.pc = "done"],
              engines |-> Store(eng, engine_id, reg.engine),
              data |-> dat, raws |-> << >>]

\* One step of work-item w of generate_normal_kernel (lines 79-103):
\*   start: compute engine_id, index, stride and load the engine;
\*   loop : one iteration of the while loop; when index >= n / 2, the tail
\*          (work-item 0, odd n) or else the save;
\*   save : the save after the tail.
generate_normal_kernel(p, k, w, reg, eng, dat) ==
    LET engine_id == EngineId(p, w)
        stride == Stride(p)
        r1 == Raw(reg.engine)
        r2 == Raw(Advance(reg.engine))
        result == Apply2(k.dist, r1, r2)
    IN  IF reg.pc = "start"
        THEN [reg |-> [reg EXCEPT !.pc = "loop", !.index = engine_id,
                                  !.engine = Load(eng, engine_id)],
              engines |-> eng, data |-> dat, raws |-> << >>]
        ELSE IF reg.pc = "loop" /\ reg.index < (k.n \div 2)
        THEN [reg |-> [reg EXCEPT !.index = (reg.index + stride) % UIntRange,
                                  !.engine = Advance(Advance(reg.engine))],
              engines |-> eng,
              data |-> Store(Store(dat, 2 * reg.index, result.x),
                             2 * reg.index + 1, result.y),
              raws |-> << r1, r2 >>]
        ELSE IF reg.pc = "loop" /\ engine_id = 0 /\ (k.n % 2) > 0
        THEN [reg |-> [reg EXCEPT !.pc = "save",
                                  !.engine = Advance(Advance(reg.engine))],
              engines |-> eng,
              data |-> Store(dat, k.n - 1, result.x),
              raws |-> << r1, r2 >>]
        ELSE [reg |-> [reg EXCEPT !.pc = "done"],
              engines |-> Store(eng, engine_id, reg.engine),
              data |-> dat, raws |-> << >>]

\* One step of work-item w of kernel k.
KernelStep(p, k, w, reg, eng, dat) ==
    IF k.name = "init_engines_kernel"
    THEN init_engines_kernel(p, k, w, reg, eng, dat)
    ELSE IF k.name = "generate_kernel"
    THEN generate_kernel(p, k, w, reg, eng, dat)
    ELSE generate_normal_kernel(p, k, w, reg, eng, dat)

\* -------------------------------------------------------------- HIP stream
\* hipLaunchKernelGGL(kernel, ..., m_stream, ...): when the launch can be
\* scheduled (ok) the kernel joins the stream, otherwise nothing is queued
\* and hipPeekAtLastError() reports the error.
hipLaunchKernelGGL(q, kernel, ok) == IF ok THEN Append(q, kernel) ELSE q

\* ------------------------------------------------------------ host methods
\* A host method maps the members it may touch, h = [seed, offset,
\* initialized, poisson, queue], to their new values and the status returned.
Host ==
    [seed |-> m_seed, offset |-> m_offset, initialized |-> m_engines_initialized,
     poisson |-> poisson, queue |-> queue]

Returns(h, st) == [h |-> h, status |-> st]

\* rocrand_mrg32k3a(seed, offset, stream) after a successful hipMalloc.
Construct(seed, offset) ==
    [seed |-> IF seed = 0 THEN ROCRAND_MRG32K3A_DEFAULT_SEED ELSE seed,
     offset |-> offset,
     initialized |-> FALSE,
     poisson |-> [lambda |-> NoLambda, rebuilds |-> 0],
     queue |-> << >>]

\* reset() that leaves m_engines_initialized as it is.
reset_keeps_flag(h) == Returns(h, ROCRAND_STATUS_SUCCESS)

\* reset()
reset(h) == Returns([h EXCEPT !.initialized = FALSE], ROCRAND_STATUS_SUCCESS)

\* set_seed without the replacement of a zero seed.
set_seed_stores_zero(h, seed) ==
    Returns([h EXCEPT !.seed = seed, !.initialized = FALSE],
            ROCRAND_STATUS_SUCCESS)

\* set_seed that stores the seed and leaves m_engines_initialized as it is.
set_seed_keeps_flag(h, seed) ==
    LET s == IF seed = 0 THEN ROCRAND_MRG32K3A_DEFAULT_SEED ELSE seed
    IN  Returns([h EXCEPT !.seed = s], ROCRAND_STATUS_SUCCESS)

\* set_seed(seed)
set_seed(h, seed) ==
    LET s == IF seed = 0 THEN ROCRAND_MRG32K3A_DEFAULT_SEED ELSE seed
    IN  Returns([h EXCEPT !.seed = s, !.initialized = FALSE],
                ROCRAND_STATUS_SUCCESS)

\* set_offset(offset)
set_offset(h, offset) ==
    Returns([h EXCEPT !.offset = offset, !.initialized = FALSE],
            ROCRAND_STATUS_SUCCESS)

\* init() that launches and never sets m_engines_initialized.
init_never_sets_flag(h, ok) ==
    IF h.initialized
    THEN Returns(h, ROCRAND_STATUS_SUCCESS)
    ELSE LET q == hipLaunchKernelGGL(h.queue, InitKernel(h.seed, h.offset), ok)
         IN  Returns([h EXCEPT !.queue = q],
                     IF ok THEN ROCRAND_STATUS_SUCCESS
                     ELSE ROCRAND_STATUS_LAUNCH_FAILURE)

\* init() that sets m_engines_initialized whatever hipPeekAtLastError says.
init_ignores_launch_error(h, ok) ==
    IF h.initialized
    THEN Returns(h, ROCRAND_STATUS_SUCCESS)
    ELSE LET q == hipLaunchKernelGGL(h.queue, InitKernel(h.seed, h.offset), ok)
         IN  Returns([h EXCEPT !.queue = q, !.initialized = TRUE],
                     IF ok THEN ROCRAND_STATUS_SUCCESS
                     ELSE ROCRAND_STATUS_LAUNCH_FAILURE)

\* init(); ok: whether the launch of init_engines_kernel can be scheduled.
init(h, ok) ==
    IF h.initialized
    THEN Returns(h, ROCRAND_STATUS_SUCCESS)
    ELSE LET q == hipLaunchKernelGGL(h.queue, InitKernel(h.seed, h.offset), ok)
         IN  IF ~ok
             THEN Returns([h EXCEPT !.queue = q], ROCRAND_STATUS_LAUNCH_FAILURE)
             ELSE Returns([h EXCEPT !.queue = q, !.initialized = TRUE],
                          ROCRAND_STATUS_SUCCESS)

\* generate(data, data_size, distribution); okI, okG: whether the launches of
\* the init kernel and of generate_kernel can be scheduled.
generate(h, data_size, distribution, okI, okG) ==
    LET r == init(h, okI)
    IN  IF r.status # ROCRAND_STATUS_SUCCESS
        THEN r
        ELSE LET q == hipLaunchKernelGGL(r.h.queue,
                          GenerateKernel(r.h, data_size, distribution), okG)
             IN  Returns([r.h EXCEPT !.queue = q],
                         IF okG THEN ROCRAND_STATUS_SUCCESS
                         ELSE ROCRAND_STATUS_LAUNCH_FAILURE)

\* generate_uniform(data, data_size)
generate_uniform(h, data_size, okI, okG) ==
    generate(h, data_size, mrg_uniform_distribution, okI, okG)

\* generate_normal that does not return when init() fails.
generate_normal_ignores_init_status(h, data_size, okI, okG) ==
    LET r == init(h, okI)
        q == hipLaunchKernelGGL(r.h.queue,
                 GenerateNormalKernel(r.h, data_size, mrg_normal_distribution),
                 okG)
    IN  Returns([r.h EXCEPT !.queue = q],
                IF okG /\ r.status = ROCRAND_STATUS_SUCCESS
                THEN ROCRAND_STATUS_SUCCESS
                ELSE ROCRAND_STATUS_LAUNCH_FAILURE)

\* generate_normal(data, data_size, stddev, mean)
generate_normal(h, data_size, okI, okG) ==
    LET r == init(h, okI)
    IN  IF r.status # ROCRAND_STATUS_SUCCESS
        THEN r
        ELSE LET q == hipLaunchKernelGGL(r.h.queue,
                          GenerateNormalKernel(r.h, data_size,
                                               mrg_normal_distribution),
                          okG)
             IN  Returns([r.h EXCEPT !.queue = q],
                         IF okG THEN ROCRAND_STATUS_SUCCESS
                         ELSE ROCRAND_STATUS_LAUNCH_FAILURE)

\* generate_log_normal(data, data_size, stddev, mean)
generate_log_normal(h, data_size, okI, okG) ==
    LET r == init(h, okI)
    IN  IF r.status # ROCRAND_STATUS_SUCCESS
        THEN r
        ELSE LET q == hipLaunchKernelGGL(r.h.queue,
                          GenerateNormalKernel(r.h, data_size,
                                               mrg_log_normal_distribution),
                          okG)
             IN  Returns([r.h EXCEPT !.queue = q],
                         IF okG THEN ROCRAND_STATUS_SUCCESS
                         ELSE ROCRAND_STATUS_LAUNCH_FAILURE)

\* poisson.set_lambda(lambda); okL: whether a rebuild of the table succeeds.
\* A lambda equal to the cached one is a no-op; otherwise the table is
\* rebuilt, and a failed rebuild throws and leaves the entry as it was.
set_lambda(p, lambda, okL) ==
    IF lambda = p.lambda
    THEN [poisson |-> p, thrown |-> FALSE]
    ELSE IF lambda <= 0 \/ ~okL
    THEN [poisson |-> p, thrown |-> TRUE]
    ELSE [poisson |-> [lambda |-> lambda, rebuilds |-> p.rebuilds + 1],
          thrown |-> FALSE]

\* generate_poisson that reads poisson.dis before set_lambda has replaced
\* the entry.
generate_poisson_stale_dis(h, data_size, lambda, okL, okI, okG) ==
    LET s == set_lambda(h.poisson, lambda, okL)
    IN  IF s.thrown
        THEN Returns(h, ROCRAND_STATUS_SET_LAMBDA_FAILED)
        ELSE generate([h EXCEPT !.poisson = s.poisson], data_size,
                      PoissonDis(h.poisson), okI, okG)

\* generate_poisson that calls init() ahead of the try block.
generate_poisson_init_first(h, data_size, lambda, okL, okI, okG) ==
    LET r == init(h, okI)
        s == set_lambda(h.poisson, lambda, okL)
    IN  IF r.status # ROCRAND_STATUS_SUCCESS
        THEN r
        ELSE IF s.thrown
        THEN Returns(r.h, ROCRAND_STATUS_SET_LAMBDA_FAILED)
        ELSE generate([r.h EXCEPT !.poisson = s.poisson], data_size,
                      PoissonDis(s.poisson), okI, okG)

\* generate_poisson(data, data_size, lambda)
generate_poisson(h, data_size, lambda, okL, okI, okG) ==
    LET s == set_lambda(h.poisson, lambda, okL)
    IN  IF s.thrown
        THEN Returns(h, ROCRAND_STATUS_SET_LAMBDA_FAILED)
        ELSE generate([h EXCEPT !.poisson = s.poisson], data_size,
                      PoissonDis(s.poisson), okI, okG)

\* ------------------------------------------------------------ state machine
NoDraws == [from |-> Indeterminate, raws |-> << >>]
\* Launch counters.  An epoch lasts from the construction or a set_seed or
\* set_offset call to the next such call; a period from the construction or
\* a reset, set_seed or set_offset call to the next such call.
\*   inits, gens  : init / generation kernels launched in the current epoch
\*   fresh, pgens : init / generation kernels launched in the current period
\*   total        : generation kernels launched since the construction
NoLaunches == [inits |-> 0, gens |-> 0, fresh |-> 0, pgens |-> 0, total |-> 0]

\* Kernels of a given name among those a host call appended to the stream.
Launched(h, name) ==
    Cardinality({i \in (Len(queue) + 1) .. Len(h.queue) : h.queue[i].name = name})

\* The state after rocrand_mrg32k3a(seed, offset) with the arguments drawn
\* from S and O.
Constructed(S, O) ==
    /\ platform \in Platforms
    /\ \E seed \in S, offset \in O :
         LET h == Construct(seed, offset)
         IN  /\ m_seed = h.seed
             /\ m_offset = h.offset
             /\ m_engines_initialized = h.initialized
             /\ poisson = h.poisson
             /\ queue = h.queue
             /\ call = [op |-> "construct", n |-> 0, arg |-> seed]
    /\ engines = [i \in PoolSlots |-> Indeterminate]
    /\ data = [i \in DataSlots |-> Blank]
    /\ run = NoKernel
    /\ lanes = [w \in Grid(platform) |-> RegDone]
    /\ status = ROCRAND_STATUS_SUCCESS
    /\ ncalls = 0
    /\ drawn = [i \in PoolSlots |-> NoDraws]
    /\ count = NoLaunches

\* rocrand_mrg32k3a(): the default arguments.
Init == Constructed({DefaultSeedArg}, {DefaultOffsetArg})

\* rocrand_mrg32k3a(seed, offset)
InitArgs == Constructed(SeedInputs, OffsetInputs)

\* rocrand_mrg32k3a(ROCRAND_MRG32K3A_DEFAULT_SEED, offset)
InitOffset == Constructed({DefaultSeedArg}, OffsetInputs)

\* The host thread makes one call, which returns r = [h, status].
HostCall(limit, op, n, arg, r) ==
    /\ ncalls < limit
    /\ Len(r.h.queue) + (IF run = NoKernel THEN 0 ELSE 1) <= MaxQueue
    /\ m_seed' = r.h.seed
    /\ m_offset' = r.h.offset
    /\ m_engines_initialized' = r.h.initialized
    /\ poisson' = r.h.poisson
    /\ queue' = r.h.queue
    /\ status' = r.status
    /\ call' = [op |-> op, n |-> n, arg |-> arg]
    /\ ncalls' = ncalls + 1
    /\ LET i == Launched(r.h, "init_engines_kernel")
           g == Launched(r.h, "generate_kernel")
                + Launched(r.h, "generate_normal_kernel")
       IN  count' = IF op \in {"set_seed", "set_offset"}
                    THEN [NoLaunches EXCEPT !.total = count.total]
                    ELSE IF op = "reset"
                    THEN [count EXCEPT !.fresh = 0, !.pgens = 0]
                    ELSE [inits |-> count.inits + i, gens |-> count.gens + g,
                          fresh |-> count.fresh + i, pgens |-> count.pgens + g,
                          total |-> count.total + g]
    /\ UNCHANGED << platform, deviceVars >>

Reset == HostCall(MaxCalls, "reset", 0, 0, reset(Host))

SetSeed == \E seed \in SeedInputs :
    HostCall(MaxCalls, "set_seed", 0, seed, set_seed(Host, seed))

SetOffset == \E offset \in OffsetInputs :
    HostCall(MaxCalls, "set_offset", 0, offset, set_offset(Host, offset))

InitCall == \E ok \in BOOLEAN :
    HostCall(MaxCalls, "init", 0, 0, init(Host, ok))

\* The generation calls under a workload W: W.calls bounds the host calls,
\* W.sizes and W.tail are the request sizes (of generate_uniform and
\* generate_normal, and of generate_log_normal and generate_poisson), W.oks the
\* outcomes of the launches and of the Poisson rebuild.
GenerateUniform(W) == \E n \in W.sizes, okI, okG \in W.oks :
    HostCall(W.calls, "generate_uniform", n, 0,
             generate_uniform(Host, n, okI, okG))

GenerateNormal(W) == \E n \in W.sizes, okI, okG \in W.oks :
    HostCall(W.calls, "generate_normal", n, 0,
             generate_normal(Host, n, okI, okG))

GenerateLogNormal(W) == \E n \in W.tail, okI, okG \in W.oks :
    HostCall(W.calls, "generate_log_normal", n, 0,
             generate_log_normal(Host, n, okI, okG))

GeneratePoisson(W) == \E n \in W.tail, lambda \in LambdaInputs, okL, okI, okG \in W.oks :
    HostCall(W.calls, "generate_poisson", n, lambda,
             generate_poisson(Host, n, lambda, okL, okI, okG))

\* The device takes the next kernel of the stream once the previous one has
\* completed.
KernelStart ==
    /\ run = NoKernel
    /\ queue # << >>
    /\ run' = Head(queue)
    /\ queue' = Tail(queue)
    /\ lanes' = [w \in Grid(platform) |-> RegStart]
    /\ data' = IF Head(queue).name = "init_engines_kernel" THEN data
               ELSE [i \in DataSlots |-> Blank]
    /\ UNCHANGED << platform, m_seed, m_offset, m_engines_initialized, poisson,
                    engines, status, call, ncalls, drawn, count >>

\* One work-item of the running kernel executes its next step.
WorkItemStep == \E w \in Grid(platform) :
    /\ run # NoKernel
    /\ lanes[w].pc # "done"
    /\ Len(lanes[w].made) < MaxDraws
    /\ LET r == KernelStep(platform, run, w, lanes[w], engines, data)
           id == EngineId(platform, w)
       IN  /\ lanes' = [lanes EXCEPT ![w] = [r.reg EXCEPT !.made = @ \o r.raws]]
           /\ engines' = r.engines
           /\ data' = r.data
           /\ drawn' = IF id \notin PoolSlots THEN drawn
                       ELSE IF run.name = "init_engines_kernel"
                       THEN [drawn EXCEPT ![id] =
                                [from |-> r.engines[id], raws |-> << >>]]
                       ELSE [drawn EXCEPT ![id].raws = @ \o r.raws]
    /\ UNCHANGED << platform, run, hostVars >>

\* The running kernel completes when all its work-items have.
KernelRetire ==
    /\ run # NoKernel
    /\ \A w \in Grid(platform) : lanes[w].pc = "done"
    /\ run' = NoKernel
    /\ UNCHANGED << platform, lanes, engines, data, drawn, hostVars >>

Device ==
    \/ KernelStart
    \/ WorkItemStep
    \/ KernelRetire

\* The whole API on a default-constructed generator; the generation calls
\* request MaxN values and any of their launches may fail.
Lifecycle ==
    [calls |-> MaxCalls, sizes |-> OneSize, tail |-> OneSize, oks |-> BOOLEAN]

Next ==
    \/ Reset
    \/ SetSeed
    \/ SetOffset
    \/ InitCall
    \/ GenerateUniform(Lifecycle)
    \/ GenerateNormal(Lifecycle)
    \/ GenerateLogNormal(Lifecycle)
    \/ GeneratePoisson(Lifecycle)
    \/ Device

Spec == Init /\ [][Next]_vars

\* One (seed, offset) epoch without reset, on a generator constructed with the
\* default seed and any offset: generation calls of every size, all of whose
\* launches can be scheduled.
OneEpoch ==
    [calls |-> MaxGenCalls, sizes |-> Sizes, tail |-> TailSizes, oks |-> {TRUE}]

NextGen ==
    \/ GenerateUniform(OneEpoch)
    \/ GenerateNormal(OneEpoch)
    \/ GenerateLogNormal(OneEpoch)
    \/ GeneratePoisson(OneEpoch)
    \/ Device

SpecGen == InitOffset /\ [][NextGen]_vars

\* Single launches of the two generation kernels, of every size up to
\* MaxLaunchN, on a default-constructed generator.
OneLaunch ==
    [calls |-> MaxLaunches, sizes |-> LaunchSizes, tail |-> LaunchSizes,
     oks |-> {TRUE}]

NextLaunch ==
    \/ GenerateUniform(OneLaunch)
    \/ GenerateNormal(OneLaunch)
    \/ Device

SpecLaunch == Init /\ [][NextLaunch]_vars

\* Single launches of the two generation kernels for request sizes beyond
\* the range of unsigned int; `data` is then the first BufferSize slots of
\* the buffer.
WideLaunch ==
    [calls |-> MaxLaunches, sizes |-> WideSizes, tail |-> WideSizes,
     oks |-> {TRUE}]

NextWide ==
    \/ GenerateUniform(WideLaunch)
    \/ GenerateNormal(WideLaunch)
    \/ Device

SpecWide == Init /\ [][NextWide]_vars

\* The seed through the life of a generator constructed with any seed and
\* offset: set_seed, init and 1:1 generation calls of MaxN values, any of
\* whose launches may fail.
NextSeed ==
    \/ SetSeed
    \/ InitCall
    \/ GenerateUniform(Lifecycle)
    \/ Device

SpecSeed == InitArgs /\ [][NextSeed]_vars

\* reset() among the setters and 2:1 generation calls of MaxN values, any of
\* whose launches may fail, on a default-constructed generator.
NextReset ==
    \/ Reset
    \/ SetSeed
    \/ SetOffset
    \/ GenerateNormal(Lifecycle)
    \/ Device

SpecReset == Init /\ [][NextReset]_vars

\* ------------------------------------------------- kernels run to completion
\* Work-item w of kernel k run from registers reg to its last statement.
RECURSIVE RunWorkItem(_, _, _, _, _, _)
RunWorkItem(p, k, w, reg, eng, dat) ==
    IF reg.pc = "done"
    THEN [engines |-> eng, data |-> dat]
    ELSE LET r == KernelStep(p, k, w, reg, eng, dat)
         IN  RunWorkItem(p, k, w, r.reg, r.engines, r.data)

\* The work-items ws of kernel k run to completion, one after the other.
RECURSIVE RunKernel(_, _, _, _, _)
RunKernel(p, k, ws, eng, dat) ==
    IF ws = {}
    THEN [engines |-> eng, data |-> dat]
    ELSE LET w == CHOOSE x \in ws : TRUE
             r == RunWorkItem(p, k, w, RegStart, eng, dat)
         IN  RunKernel(p, k, ws \ {w}, r.engines, r.data)

\* The kernels of stream q run to completion in stream order; a generation
\* kernel writes the (blank) buffer of its call.
RECURSIVE Drain(_, _, _, _)
Drain(p, q, eng, dat) ==
    IF q = << >>
    THEN [engines |-> eng, data |-> dat]
    ELSE LET buf == IF Head(q).name = "init_engines_kernel" THEN dat
                    ELSE [i \in DataSlots |-> Blank]
             r == RunKernel(p, Head(q), Grid(p), eng, buf)
         IN  Drain(p, Tail(q), r.engines, r.data)

\* The first n slots of a buffer, as a sequence.
Output(dat, n) == [i \in 1 .. n |-> dat[i - 1]]

\* generate_uniform(data, n) on host members h and pool eng, followed by the
\* completion of the stream: the members, the pool and the n values written.
GenerateAndWait(p, h, eng, n) ==
    LET r == generate_uniform(h, n, TRUE, TRUE)
        d == Drain(p, r.h.queue, eng, [i \in DataSlots |-> Blank])
    IN  [h |-> [r.h EXCEPT !.queue = << >>], engines |-> d.engines,
         out |-> Output(d.data, n)]

\* The stream is empty and the device idle.
Idle == run = NoKernel /\ queue = << >>

\* generate(k) then generate(n - k) yields the output of one generate(n).
SplitAgrees(k, n) ==
    LET one == GenerateAndWait(platform, Host, engines, n)
        a == GenerateAndWait(platform, Host, engines, k)
        b == GenerateAndWait(platform, a.h, a.engines, n - k)
    IN  a.out \o b.out = one.out

\* C1 (as stated): from any state of the generator with its stream drained,
\* for every n and every k in 0 .. n, generate(k) followed by generate(n - k)
\* writes, slot for slot, what a single generate(n) writes.
C1_Continuation_AnySplit ==
    Idle => \A n \in Sizes : \A k \in 0 .. n : SplitAgrees(k, n)

\* C1 (amended): the same, for every k that is a multiple of the stride (the
\* number of work-items launched) or equal to n.
C1_Continuation_AlignedSplit ==
    Idle => \A n \in Sizes : \A k \in 0 .. n :
                (k % Stride(platform) = 0 \/ k = n) => SplitAgrees(k, n)

\* Two generate_uniform calls have completed on the two-lane build, the
\* second one continuing the first at an aligned split of a larger request.
C1_Witness ==
    /\ Idle
    /\ platform = "hcc"
    /\ ncalls = 2
    /\ call.op = "generate_uniform"
    /\ call.n = 2
    /\ \A i \in PoolSlots : Len(drawn[i].raws) = 2
    /\ SplitAgrees(Stride(platform), MaxN)
    /\ ~SplitAgrees(1, MaxN)


\* ------------------------------------------------------------------- C2
\* The work-items of the launch that use engine slot i.
WorkItemsOf(i) == { w \in Grid(platform) : EngineId(platform, w) = i }

\* The generation kernels.
GenerationKernels == {"generate_kernel", "generate_normal_kernel"}

\* Work-item w of the running generation kernel holds its engine in a
\* register: it has loaded it and not yet returned.
InFlight(w) ==
    /\ run.name \in GenerationKernels
    /\ lanes[w].pc \notin {"start", "done"}

\* The current state of engine i: the register copy of the work-item that
\* has it loaded, otherwise the state stored in the pool.
HeldState(i) ==
    IF \E w \in WorkItemsOf(i) : InFlight(w)
    THEN lanes[CHOOSE w \in WorkItemsOf(i) : InFlight(w)].engine
    ELSE engines[i]

\* The state engine i had when the running kernel loaded it: the state the
\* init kernel constructed, advanced by the draws of the earlier kernels.
LoadedState(i, w) ==
    Discard(drawn[i].from, Len(drawn[i].raws) - Len(lanes[w].made))

\* C2: inside one epoch without reset, over any sequence of 1:1 and 2:1
\* generation calls, (a) the state a work-item saves back is the state it
\* loaded advanced by exactly the number of raw draws it made in the call
\* (the two of the odd tail included), and (b) the raw draws an engine hands
\* out over the whole sequence are the consecutive draws 1, 2, 3, ... of its
\* substream from the state the init kernel constructed, none used twice and
\* none skipped, and the engine stands right after the last of them.
C2_SavedStateIsLoadedPlusDraws ==
    \A i \in PoolSlots : drawn[i].from # Indeterminate =>
        /\ \A j \in 1 .. Len(drawn[i].raws) :
               drawn[i].raws[j] = Raw(Discard(drawn[i].from, j - 1))
        /\ HeldState(i) = Discard(drawn[i].from, Len(drawn[i].raws))
        /\ \A w \in WorkItemsOf(i) :
               (run.name \in GenerationKernels /\ lanes[w].pc = "done") =>
                   engines[i] = Discard(LoadedState(i, w), Len(lanes[w].made))

\* A 1:1 call and then a 2:1 call of an odd size greater than one have
\* completed: engine 0 made the draws of its two sweeps and the two of the
\* tail, engine 1 those of its sweeps.
C2_Witness ==
    /\ Idle /\ platform = "hcc" /\ ncalls = 2
    /\ call.op = "generate_normal" /\ call.n > 1 /\ call.n % 2 = 1
    /\ count.total = 2
    /\ Len(drawn[0].raws) >= 6
    /\ Len(drawn[1].raws) >= 1
    /\ engines[0] = Discard(drawn[0].from, Len(drawn[0].raws))
    /\ engines[0] # drawn[0].from


\* ------------------------------------------------------------------- C3
\* The work-item of the launch whose engine_id is id.
WorkItemOf(id) == CHOOSE w \in Grid(platform) : EngineId(platform, w) = id

\* Every work-item of the running kernel has returned.
AllDone == \A w \in Grid(platform) : lanes[w].pc = "done"

\* C3: in a 1:1 generation call of n outputs launched with stride
\* work-items, output position k holds the functor applied to the
\* (k / stride + 1)-th raw draw that work-item (k mod stride) makes in that
\* call, from the moment that draw is made until the kernel completes, and
\* holds no draw of another work-item; when the work-item returns it has made
\* that draw.
C3_PositionGetsStridedDraw ==
    run.name = "generate_kernel" =>
        \A k \in 0 .. run.n - 1 :
            LET w == WorkItemOf(k % Stride(platform))
                j == (k \div Stride(platform)) + 1
            IN  /\ lanes[w].pc = "done" => j <= Len(lanes[w].made)
                /\ j <= Len(lanes[w].made) =>
                       /\ data[k] = Apply1(run.dist, lanes[w].made[j])
                       /\ \A v \in Grid(platform) \ {w} :
                              \A m \in 1 .. Len(lanes[v].made) :
                                  lanes[v].made[m] \notin data[k].raws

\* The 1:1 kernel of a second call of MaxN values has written every
\* position; every work-item drew, one of them twice, and none of the draws
\* is the first of its engine.
C3_Witness ==
    /\ run.name = "generate_kernel" /\ run.n = MaxN /\ AllDone
    /\ platform = "hcc" /\ count.total = 2
    /\ \A w \in Grid(platform) : Len(lanes[w].made) >= 1
    /\ \E w \in Grid(platform) : Len(lanes[w].made) >= 2
    /\ \A w \in Grid(platform) :
           Len(drawn[EngineId(platform, w)].raws) > Len(lanes[w].made)
    /\ \A k \in 0 .. MaxN - 1 : data[k] # Blank


\* ------------------------------------------------------------------- C4
\* C4: a generation call made after set_seed or set_offset never uses stale
\* engine state.  While its kernel runs, every engine of a launched
\* work-item was constructed by the init kernel from the seed and offset the
\* generator had when the call was made and the work-item's engine_id (that
\* init kernel has completed: the stream runs one kernel at a time), and the
\* state a work-item has loaded is that state advanced by the draws made
\* from it since.
C4_NoStaleStateAfterReseed ==
    run.name \in GenerationKernels =>
        \A w \in Grid(platform) :
            LET id == EngineId(platform, w)
                fresh == mrg32k3a_device_engine(run.seed, id, run.offset)
            IN  /\ drawn[id].from = fresh
                /\ HeldState(id) = Discard(fresh, Len(drawn[id].raws))
                /\ \A j \in 1 .. Len(lanes[w].made) :
                       /\ lanes[w].made[j].seed = run.seed
                       /\ lanes[w].made[j].sub = id
                       /\ lanes[w].made[j].pos > run.offset

\* A generation call, set_seed(1) and a second generation call, whose
\* work-items have all drawn.
C4_Witness ==
    /\ run.name \in GenerationKernels
    /\ count.total = 2
    /\ run.seed = 1
    /\ m_seed = 1
    /\ \A w \in Grid(platform) : Len(lanes[w].made) > 0


\* ------------------------------------------------------------------- C5
\* State e is EngineState(seed, i, offset) advanced by zero or more draws.
Derived(e, seed, i, offset) ==
    /\ e.seed = seed
    /\ e.sub = i
    /\ e.pos >= offset

\* The last host call was set_seed or set_offset.
AfterSetter == call.op \in {"set_seed", "set_offset"}

\* C5 as stated: in every reachable state m_engines_initialized is true if
\* and only if every engine of the pool holds a state derived from the
\* current (m_seed, m_offset), and every set_seed and set_offset leaves the
\* flag false.
C5_FlagIffPoolDerived ==
    /\ m_engines_initialized <=>
           \A i \in PoolSlots : Derived(engines[i], m_seed, i, m_offset)
    /\ AfterSetter => ~m_engines_initialized

\* C5 amended: every set_seed and set_offset leaves the flag false, and
\* whenever the flag is true and the stream has drained, every engine that a
\* launch uses holds a state derived from the current (m_seed, m_offset).
C5_FlagImpliesLaunchedDerivedWhenIdle ==
    /\ AfterSetter => ~m_engines_initialized
    /\ (m_engines_initialized /\ Idle) =>
           \A w \in Grid(platform) :
               LET id == EngineId(platform, w)
               IN  Derived(engines[id], m_seed, id, m_offset)

\* After a generation call, set_offset(1) and a second generation call the
\* stream has drained with the flag set: the engines were constructed again
\* at the new offset and have drawn.
C5_Witness ==
    /\ m_engines_initialized /\ Idle
    /\ ncalls = MaxCalls
    /\ m_offset = 1
    /\ count.total = 2
    /\ \A w \in Grid(platform) :
           /\ drawn[EngineId(platform, w)].from.pos = 1
           /\ engines[EngineId(platform, w)].pos > 1


\* ------------------------------------------------------------------- C6
\* C6: after a successful init(), once its kernel has completed, every
\* engine i of the pool, 0 <= i < m_engines_size, holds
\* EngineState(m_seed, i, m_offset), with either launch configuration.
C6_InitCoversFullPool ==
    (call.op = "init" /\ status = ROCRAND_STATUS_SUCCESS /\ Idle) =>
        \A i \in 0 .. m_engines_size - 1 :
            engines[i] = mrg32k3a_device_engine(m_seed, i, m_offset)


\* ------------------------------------------------------------------- C7
\* Iterations of the strided sweep of generate_normal_kernel that the
\* work-item with engine_id id runs for n outputs: the pair indices below
\* n / 2 that are congruent to id modulo stride.
SweepCount(id, n) ==
    Cardinality({ i \in 0 .. (n \div 2) - 1 : i % Stride(platform) = id })

\* C7: in a 2:1 generation call of n outputs.  For odd n, slot n - 1 is
\* blank until work-item 0 has finished its sweep, and from then until the
\* kernel completes it holds the first component of one pair made from the
\* two raw draws work-item 0 makes right after its sweep; no slot holds the
\* second component; the state work-item 0 saves includes those two draws;
\* and every other work-item draws twice per iteration of its sweep and no
\* more.  For even n every work-item, work-item 0 included, draws twice per
\* iteration of its sweep and no more.
C7_OddTail ==
    run.name = "generate_normal_kernel" =>
        LET n == run.n
            w0 == WorkItemOf(0)
            L == Len(lanes[w0].made)
            tail == Apply2(run.dist, lanes[w0].made[L - 1], lanes[w0].made[L])
            Swept(w) ==
                /\ Len(lanes[w].made) <= 2 * SweepCount(EngineId(platform, w), n)
                /\ lanes[w].pc = "done" =>
                       Len(lanes[w].made) = 2 * SweepCount(EngineId(platform, w), n)
        IN  IF n % 2 = 1
            THEN /\ lanes[w0].pc \in {"start", "loop"} =>
                        /\ data[n - 1] = Blank
                        /\ L <= 2 * SweepCount(0, n)
                 /\ lanes[w0].pc \in {"save", "done"} =>
                        /\ L = 2 * SweepCount(0, n) + 2
                        /\ data[n - 1] = tail.x
                        /\ \A k \in DataSlots : data[k] # tail.y
                        /\ HeldState(0) = Discard(LoadedState(0, w0), L)
                 /\ \A w \in Grid(platform) \ {w0} : Swept(w)
            ELSE \A w \in Grid(platform) : Swept(w)

\* The 2:1 kernel of a second call of MaxN values, an odd number, has
\* completed: work-item 0 swept and made the tail, the others swept.
C7_Witness ==
    /\ run.name = "generate_normal_kernel" /\ AllDone
    /\ platform = "hcc" /\ count.total = 2
    /\ run.n = MaxN /\ run.n % 2 = 1 /\ run.n > 1
    /\ Len(lanes[WorkItemOf(0)].made) = 4
    /\ data[run.n - 1] # Blank
    /\ engines[1] # Indeterminate


\* ------------------------------------------------------------------- C8
\* The generation calls.
GenerationCalls ==
    {"generate_uniform", "generate_normal", "generate_log_normal",
     "generate_poisson"}

\* This step is a host call of one of the operations in ops that returns st.
CallReturns(ops, st) ==
    /\ ncalls' = ncalls + 1
    /\ call'.op \in ops
    /\ status' = st

\* C8: whenever a generation call returns ROCRAND_STATUS_LAUNCH_FAILURE,
\* m_engines_initialized, every engine of the pool and the Poisson cache
\* entry are as they were before the call.
C8_LaunchFailureLeavesPoolAndCache ==
    [][CallReturns(GenerationCalls, ROCRAND_STATUS_LAUNCH_FAILURE) =>
          /\ m_engines_initialized' = m_engines_initialized
          /\ engines' = engines
          /\ poisson' = poisson]_vars

\* ------------------------------------------------------------------- C9
\* C9 as stated: init_engines_kernel is launched exactly once per (seed,
\* offset) epoch in which something is generated, however many generation
\* calls and reset calls the epoch has.
C9_InitOncePerEpoch ==
    count.gens > 0 => count.inits = 1

\* C9 amended: init_engines_kernel is launched at most once per period
\* between two consecutive invalidations (construction, reset, set_seed,
\* set_offset), exactly once in a period in which a generation kernel is
\* launched, however many generation calls the period has, and
\* m_engines_initialized tells whether it has been launched in the period.
C9_InitOncePerPeriod ==
    /\ count.fresh <= 1
    /\ count.pgens > 0 => count.fresh = 1
    /\ m_engines_initialized <=> count.fresh = 1

\* generate, reset, generate in one epoch: two launches of the init kernel
\* in the epoch, one of them in the period after the reset.
C9_Witness ==
    /\ count.inits = 2
    /\ count.fresh = 1
    /\ count.pgens = 1
    /\ count.gens = 2
    /\ call.op \in GenerationCalls

\* ------------------------------------------------------------------ C10
\* C10: when set_lambda fails inside generate_poisson, generate_poisson
\* returns that error and launches nothing: no kernel joins the stream, and
\* m_engines_initialized, the engines, the output buffer, the device and the
\* Poisson cache entry are as they were before the call.
C10_SetLambdaFailureLaunchesNothing ==
    [][CallReturns({"generate_poisson"}, ROCRAND_STATUS_SET_LAMBDA_FAILED) =>
          UNCHANGED << queue, m_engines_initialized, engines, data, run,
                       lanes, poisson, m_seed, m_offset >>]_vars

\* generate_poisson has returned the error of set_lambda on a generator that
\* was not initialized: had it called init(), a kernel would be in the stream.
C10_Witness ==
    /\ call.op = "generate_poisson"
    /\ status = ROCRAND_STATUS_SET_LAMBDA_FAILED
    /\ ~m_engines_initialized
    /\ ncalls > 1


\* ------------------------------------------------------------------ C11
\* The kernels this step appends to the stream.
Enqueued == { queue'[i] : i \in (Len(queue) + 1) .. Len(queue') }

\* This step is a host call.
IsHostCall == ncalls' = ncalls + 1

\* C11: over any sequence of generate_poisson calls the table is rebuilt
\* once per maximal run of calls with the same lambda.  A generate_poisson
\* call whose set_lambda succeeds leaves the entry of its lambda cached, and
\* has rebuilt the table once if that lambda differs from the one cached by
\* the previous such call (or none was cached) and not at all if it is the
\* same; the generation kernel it launches carries the functor of the entry
\* of its lambda; and no other call touches the entry.
C11_PoissonCacheRebuiltOncePerRun ==
    [][IsHostCall =>
          IF call'.op = "generate_poisson"
                /\ status' # ROCRAND_STATUS_SET_LAMBDA_FAILED
          THEN /\ poisson'.lambda = call'.arg
               /\ poisson'.rebuilds =
                      poisson.rebuilds
                          + (IF poisson.lambda = call'.arg THEN 0 ELSE 1)
               /\ \A k \in Enqueued :
                      k.name # "init_engines_kernel" =>
                          /\ k.name = "generate_kernel"
                          /\ k.dist = PoissonDis([lambda |-> call'.arg])
          ELSE poisson' = poisson]_vars

\* Three generate_poisson calls, the last two with the same lambda and the
\* first with another one, have launched their kernels: two rebuilds.
C11_Witness ==
    /\ call.op = "generate_poisson" /\ ncalls = 3
    /\ status = ROCRAND_STATUS_SUCCESS
    /\ poisson.rebuilds = 2
    /\ Len(queue) = 4
    /\ queue[2].dist.name = "poisson"
    /\ queue[3].dist = PoissonDis([lambda |-> call.arg])
    /\ queue[4].dist = queue[3].dist
    /\ queue[2].dist # queue[3].dist


\* ------------------------------------------------------------------ C12
\* The seed stored for a seed argument.
StoredSeed(arg) == IF arg = 0 THEN ROCRAND_MRG32K3A_DEFAULT_SEED ELSE arg

\* The kernels in the stream, the running one included.
InStream == { queue[i] : i \in 1 .. Len(queue) } \cup {run}

\* C12: m_seed is non-zero in every reachable state.  The constructor and
\* set_seed store the default constant for a zero argument and a non-zero
\* argument unchanged, so no init_engines_kernel is launched with seed 0
\* and no engine is constructed from seed 0.
C12_SeedNonZero ==
    /\ m_seed # 0
    /\ call.op \in {"construct", "set_seed"} => m_seed = StoredSeed(call.arg)
    /\ \A k \in InStream : k.name = "init_engines_kernel" => k.seed # 0
    /\ \A i \in PoolSlots : engines[i] # Indeterminate => engines[i].seed # 0

\* A generation call, set_seed(0) and init(): the init kernel launched after
\* set_seed(0) has constructed the engines from the default constant.
C12_Witness ==
    /\ call.op = "init" /\ Idle /\ m_engines_initialized
    /\ count.inits = 1 /\ count.total = 1
    /\ m_seed = ROCRAND_MRG32K3A_DEFAULT_SEED
    /\ \A w \in Grid(platform) :
           /\ drawn[EngineId(platform, w)].from.seed = m_seed
           /\ drawn[EngineId(platform, w)].raws = << >>
           /\ engines[EngineId(platform, w)].seed = m_seed


\* ------------------------------------------------------------------ C13
\* The work-items ws of kernel k run from their registers regs to their last
\* statement, one after the other.
RECURSIVE FinishKernel(_, _, _, _, _, _)
FinishKernel(p, k, ws, regs, eng, dat) ==
    IF ws = {}
    THEN [engines |-> eng, data |-> dat]
    ELSE LET w == CHOOSE x \in ws : TRUE
             r == RunWorkItem(p, k, w, regs[w], eng, dat)
         IN  FinishKernel(p, k, ws \ {w}, regs, r.engines, r.data)

\* The kernels of stream q run to completion in stream order from pool eng:
\* the pool they leave and, for every generation kernel, the buffer of its
\* call.
RECURSIVE DrainOutputs(_, _, _)
DrainOutputs(p, q, eng) ==
    IF q = << >>
    THEN [engines |-> eng, outs |-> << >>]
    ELSE LET k == Head(q)
             r == RunKernel(p, k, Grid(p), eng, [i \in DataSlots |-> Blank])
             rest == DrainOutputs(p, Tail(q), r.engines)
         IN  [engines |-> rest.engines,
              outs |-> IF k.name = "init_engines_kernel" THEN rest.outs
                       ELSE << r.data >> \o rest.outs]

\* What the launches made so far and not yet completed come to when the
\* running kernel stands at registers regs, pool eng and buffer dat: the pool
\* and the buffers once the stream has drained, the work-items of the running
\* kernel finishing one after the other.
OutcomeOf(regs, eng, dat) ==
    LET f == IF run = NoKernel
             THEN [engines |-> eng, data |-> dat]
             ELSE FinishKernel(platform, run, Grid(platform), regs, eng, dat)
        rest == DrainOutputs(platform, queue, f.engines)
    IN  [engines |-> rest.engines,
         outs |-> IF run.name \in GenerationKernels
                  THEN << f.data >> \o rest.outs
                  ELSE rest.outs]

Outcome == OutcomeOf(lanes, engines, data)

\* The outcome after work-item w of the running kernel has executed its next
\* statement.
OutcomeAfterStep(w) ==
    LET r == KernelStep(platform, run, w, lanes[w], engines, data)
    IN  OutcomeOf([lanes EXCEPT ![w] = r.reg], r.engines, r.data)

\* C13: for a fixed seed, offset, launch configuration and call sequence,
\* the output buffers and the final pool contents do not depend on the
\* interleaving of the work-items inside a launch: in every reachable state,
\* whichever work-item executes its next statement, the launches made so far
\* come to the same buffers and the same pool, so every schedule ends in the
\* same buffers and pool.
C13_DeterministicUnderInterleaving ==
    \A w \in Grid(platform) :
        (run # NoKernel /\ lanes[w].pc # "done") =>
            OutcomeAfterStep(w) = Outcome

\* Both work-items of a generate_kernel of MaxLaunchN values are between
\* their load and their save, each part of the way through its positions.
C13_Witness ==
    /\ platform = "hcc"
    /\ run.name = "generate_kernel" /\ run.n = MaxLaunchN
    /\ \A w \in Grid(platform) : InFlight(w) /\ Len(lanes[w].made) = 1
    /\ \E i \in DataSlots : data[i] = Blank /\ i < run.n


\* ------------------------------------------------------------------ C14
\* This step is a statement of work-item w of the running kernel.
StepOf(w) ==
    /\ run' = run
    /\ lanes'[w] # lanes[w]

\* The engine slots and the buffer slots this step changes.
PoolWritten == { i \in PoolSlots : engines'[i] # engines[i] }
DataWritten == { k \in DataSlots : data'[k] # data[k] }

\* Position k of the running 1:1 kernel has been written: the work-item it
\* belongs to has moved its index past it.
Passed(k) ==
    LET w == WorkItemOf(k % Stride(platform))
    IN  lanes[w].pc # "start" /\ lanes[w].index > k

\* C14: in one 1:1 launch of n outputs.  At every moment a position below
\* n holds a value exactly if the work-item it belongs to (k mod stride) has
\* passed it, that value is a draw of that work-item's engine, and the
\* positions from n on are blank.  A statement of work-item w changes no
\* engine slot but its own, loads its own slot, draws only for a position
\* below n that is congruent to its engine_id modulo stride and was blank,
\* and changes that position alone.  So every position below n is written
\* once, by one work-item, and none from n on.
C14_DisjointStridedWrites ==
    /\ [](run.name = "generate_kernel" =>
             \A k \in DataSlots :
                 IF k < run.n
                 THEN /\ data[k] # Blank <=> Passed(k)
                      /\ \A r \in data[k].raws : r.sub = k % Stride(platform)
                 ELSE data[k] = Blank)
    /\ [][run.name = "generate_kernel" =>
             \A w \in Grid(platform) : StepOf(w) =>
                 LET id == EngineId(platform, w)
                     index == lanes[w].index
                 IN  /\ PoolWritten \subseteq {id}
                     /\ lanes[w].pc = "start" =>
                            /\ lanes'[w].engine = engines[id]
                            /\ DataWritten = {}
                     /\ Len(lanes'[w].made) > Len(lanes[w].made) =>
                            /\ index < run.n
                            /\ index % Stride(platform) = id
                            /\ index \in DataSlots
                            /\ data[index] = Blank
                            /\ DataWritten = {index}
                     /\ Len(lanes'[w].made) = Len(lanes[w].made) =>
                            DataWritten = {}]_vars

\* A 1:1 kernel of MaxLaunchN - 1 outputs has completed on a buffer of
\* MaxLaunchN slots: each work-item wrote two positions and the last slot is
\* blank.
C14_Witness ==
    /\ run.name = "generate_kernel" /\ AllDone
    /\ platform = "hcc"
    /\ run.n = MaxLaunchN - 1
    /\ \A w \in Grid(platform) : Len(lanes[w].made) = 2
    /\ \A k \in 0 .. run.n - 1 : data[k] # Blank
    /\ data[0].raws # data[1].raws
    /\ data[run.n] = Blank


\* ------------------------------------------------------------------ C15
\* Paired position i of the running 2:1 kernel has been written: the
\* work-item it belongs to has moved its index past it.
PairPassed(i) ==
    LET w == WorkItemOf(i % Stride(platform))
    IN  lanes[w].pc # "start" /\ lanes[w].index > i

\* Work-item 0 of the running 2:1 kernel has executed the tail.
TailDone == lanes[WorkItemOf(0)].pc \in {"save", "done"}

\* C15: in one 2:1 launch of n outputs.  At every moment the two slots of
\* a paired position below n / 2 hold the two components of one pair made
\* from two draws of the work-item the position belongs to exactly if that
\* work-item has passed it, slot n - 1 of an odd n holds a value exactly if
\* work-item 0 has executed the tail, and the slots from n on are blank.  A
\* statement of work-item w changes no engine slot but its own; an iteration
\* of its sweep makes two draws and writes the two adjacent slots, blank
\* until then, of one paired position below n / 2 that is congruent to its
\* engine_id modulo stride; the tail is executed by work-item 0 for odd n
\* and writes slot n - 1 alone, blank until then and no slot of a paired
\* position.  So every slot below n is written once and none from n on.
C15_DisjointPairedWrites ==
    /\ [](run.name = "generate_normal_kernel" =>
             /\ \A i \in 0 .. (run.n \div 2) - 1 :
                    IF PairPassed(i)
                    THEN /\ data[2 * i].comp = 1
                         /\ data[2 * i + 1].comp = 2
                         /\ data[2 * i].raws = data[2 * i + 1].raws
                         /\ Cardinality(data[2 * i].raws) = 2
                         /\ \A r \in data[2 * i].raws :
                                r.sub = i % Stride(platform)
                    ELSE data[2 * i] = Blank /\ data[2 * i + 1] = Blank
             /\ run.n % 2 = 1 => (data[run.n - 1] # Blank <=> TailDone)
             /\ \A k \in DataSlots : k >= run.n => data[k] = Blank)
    /\ [][run.name = "generate_normal_kernel" =>
             \A w \in Grid(platform) : StepOf(w) =>
                 LET id == EngineId(platform, w)
                     index == lanes[w].index
                     draws == Len(lanes'[w].made) - Len(lanes[w].made)
                 IN  /\ PoolWritten \subseteq {id}
                     /\ draws \in {0, 2}
                     /\ draws = 0 => DataWritten = {}
                     /\ (draws = 2 /\ lanes'[w].pc = "loop") =>
                            /\ index < run.n \div 2
                            /\ index % Stride(platform) = id
                            /\ 2 * index + 1 < run.n
                            /\ data[2 * index] = Blank
                            /\ data[2 * index + 1] = Blank
                            /\ DataWritten = {2 * index, 2 * index + 1}
                     /\ (draws = 2 /\ lanes'[w].pc # "loop") =>
                            /\ id = 0
                            /\ run.n % 2 = 1
                            /\ run.n - 1 >= 2 * (run.n \div 2)
                            /\ data[run.n - 1] = Blank
                            /\ DataWritten = {run.n - 1}]_vars

\* A 2:1 kernel of MaxLaunchN outputs, an odd number, has completed: every
\* work-item swept a paired position, work-item 0 wrote the slot of the tail
\* and the rest of the buffer is blank.
C15_Witness ==
    /\ run.name = "generate_normal_kernel" /\ AllDone
    /\ platform = "hcc"
    /\ run.n = MaxLaunchN /\ run.n % 2 = 1
    /\ run.n \div 2 >= Stride(platform)
    /\ \A k \in 0 .. run.n - 1 : data[k] # Blank
    /\ \A w \in Grid(platform) : Len(lanes[w].made) >= 2
    /\ data[0].raws = data[1].raws
    /\ data[2].raws # data[0].raws
    /\ data[run.n - 1].raws # data[0].raws


\* ------------------------------------------------------------------ C16
\* Work-item w of the running generation kernel is in excess: its engine_id
\* is not below n (1:1), or not below n / 2 and it is not the work-item of
\* the tail of an odd n (2:1).
Excess(w) ==
    LET id == EngineId(platform, w)
    IN  IF run.name = "generate_kernel"
        THEN id >= run.n
        ELSE id >= run.n \div 2 /\ ~(id = 0 /\ run.n % 2 = 1)

\* C16: in a generation launch a work-item in excess makes no raw draw and
\* writes no output slot, and none of its statements, the save included,
\* changes its engine slot or any other; in particular a launch with n = 0
\* leaves every engine slot and every output slot as it was.
C16_ExcessLanesIdle ==
    /\ [](run.name \in GenerationKernels =>
             /\ \A w \in Grid(platform) : Excess(w) =>
                    /\ lanes[w].made = << >>
                    /\ engines[EngineId(platform, w)]
                           = LoadedState(EngineId(platform, w), w)
                    /\ \A k \in DataSlots : \A r \in data[k].raws :
                           r.sub # EngineId(platform, w)
             /\ run.n = 0 => \A k \in DataSlots : data[k] = Blank)
    /\ [][run.name \in GenerationKernels =>
             \A w \in Grid(platform) : (StepOf(w) /\ Excess(w)) =>
                 /\ lanes'[w].made = lanes[w].made
                 /\ DataWritten = {}
                 /\ PoolWritten = {}
                 /\ lanes'[w].pc = "done" =>
                        engines'[EngineId(platform, w)] = lanes[w].engine]_vars

\* A 1:1 kernel of one output has completed on two work-items: the second
\* one loaded its engine, drew nothing and saved it as it was, while the
\* first one drew.
C16_Witness ==
    /\ run.name = "generate_kernel" /\ AllDone /\ run.n = 1
    /\ platform = "hcc"
    /\ \E w \in Grid(platform) :
           /\ Excess(w)
           /\ lanes[w].engine = engines[EngineId(platform, w)]
           /\ engines[EngineId(platform, w)] = drawn[EngineId(platform, w)].from
           /\ engines[EngineId(platform, w)] # Indeterminate
    /\ \E w \in Grid(platform) : ~Excess(w) /\ Len(lanes[w].made) = 1


\* ------------------------------------------------------------------ C17
\* This step is a generation call whose init launch could not be scheduled:
\* the generator was not initialized, the call returns
\* ROCRAND_STATUS_LAUNCH_FAILURE and no init_engines_kernel joined the stream.
InitLaunchFailed ==
    /\ CallReturns(GenerationCalls, ROCRAND_STATUS_LAUNCH_FAILURE)
    /\ ~m_engines_initialized
    /\ \A k \in Enqueued : k.name # "init_engines_kernel"

\* C17: a generation call whose init launch cannot be scheduled returns
\* ROCRAND_STATUS_LAUNCH_FAILURE without enqueuing anything, leaves the
\* buffer, the engines and the device as they were and
\* m_engines_initialized false; a generation call on a generator that is not
\* initialized enqueues a generation kernel only behind an
\* init_engines_kernel of the same call; and no work-item of a generation
\* kernel ever loads an engine that was not constructed.
C17_InitLaunchFailure ==
    /\ [][InitLaunchFailed =>
              /\ queue' = queue
              /\ ~m_engines_initialized'
              /\ UNCHANGED << data, engines, run, lanes >>]_vars
    /\ [][(IsHostCall /\ ~m_engines_initialized /\ Enqueued # {}) =>
              /\ queue'[Len(queue) + 1]
                     = InitKernel(m_seed, m_offset)
              /\ m_engines_initialized']_vars
    /\ [](run.name \in GenerationKernels =>
              \A w \in Grid(platform) :
                  lanes[w].pc # "start" => lanes[w].engine # Indeterminate)

\* The first call on a fresh generator is a generation call whose init
\* launch failed.
C17_Witness ==
    /\ ncalls = 1
    /\ call.op \in GenerationCalls
    /\ status = ROCRAND_STATUS_LAUNCH_FAILURE
    /\ ~m_engines_initialized
    /\ Idle
    /\ \A i \in PoolSlots : engines[i] = Indeterminate


\* ------------------------------------------------------------------ C18
\* The generation call named op, of size n (and lambda for
\* generate_poisson), on host members h, all launches scheduled.
GenerationCall(op, h, n, lambda) ==
    CASE op = "generate_uniform" -> generate_uniform(h, n, TRUE, TRUE)
      [] op = "generate_normal" -> generate_normal(h, n, TRUE, TRUE)
      [] op = "generate_log_normal" -> generate_log_normal(h, n, TRUE, TRUE)
      [] op = "generate_poisson" ->
             generate_poisson(h, n, lambda, TRUE, TRUE, TRUE)

\* The output of generation call op made now, once the stream has drained:
\* the running kernel finishes, then the kernels waiting, then those of the
\* call.
OutputOfNext(op, n, lambda) ==
    LET f == IF run = NoKernel
             THEN [engines |-> engines, data |-> data]
             ELSE FinishKernel(platform, run, Grid(platform), lanes,
                               engines, data)
        r == GenerationCall(op, Host, n, lambda)
    IN  Output(Drain(platform, r.h.queue, f.engines, f.data).data, n)

\* The output of generation call op as the first call on a generator
\* constructed with seed and offset.
OutputOfFirst(op, n, lambda, seed, offset) ==
    LET r == GenerationCall(op, Construct(seed, offset), n, lambda)
    IN  Output(Drain(platform, r.h.queue,
                     [i \in PoolSlots |-> Indeterminate],
                     [i \in DataSlots |-> Blank]).data, n)

\* C18: reset() clears m_engines_initialized and changes nothing else
\* (seed, offset, Poisson entry, stream, device); and after reset(),
\* whatever calls preceded it and whatever the device still has to run, the
\* next generation call of any size and distribution gives the output that
\* the same call gives as the first call on a generator freshly constructed
\* with the same seed and offset.
C18_ResetRestartsSequence ==
    /\ [][(IsHostCall /\ call'.op = "reset") =>
              /\ ~m_engines_initialized'
              /\ UNCHANGED << m_seed, m_offset, poisson, queue, deviceVars >>]_vars
    /\ [](call.op = "reset" =>
              /\ ~m_engines_initialized
              /\ \A op \in GenerationCalls, n \in Sizes, lambda \in LambdaInputs :
                     OutputOfNext(op, n, lambda)
                         = OutputOfFirst(op, n, lambda, m_seed, m_offset))

\* reset() after set_offset(1) and a generation call whose kernels have
\* completed: the engines stand past the offset they were constructed at.
C18_Witness ==
    /\ call.op = "reset" /\ ncalls = 3
    /\ Idle
    /\ count.total = 1
    /\ m_offset = 1
    /\ \A w \in Grid(platform) :
           engines[EngineId(platform, w)].pos > m_offset


\* ------------------------------------------------------------------ C19
\* Iterations of the strided loop that the work-item with engine_id id
\* needs for a limit of m positions: the positions below m that are
\* congruent to id modulo stride.
Iterations(id, m) ==
    IF m <= id THEN 0
    ELSE ((m - id) + Stride(platform) - 1) \div Stride(platform)

\* The limit the loop of the running generation kernel tests index against.
LoopLimit == IF run.name = "generate_kernel" THEN run.n ELSE run.n \div 2

\* C19: for every request size n of the range of size_t, n at or above
\* 2^32 - stride included, the index of a work-item never wraps around: an
\* iteration of the strided loop moves it forward, no output slot that holds
\* a value is written again, and the loop ends after the iterations the
\* limit calls for, so a work-item draws no more than that (and the two
\* draws of the tail).
C19_IndexNeverWraps ==
    /\ [][run.name \in GenerationKernels =>
              \A w \in Grid(platform) : StepOf(w) =>
                  /\ lanes[w].pc = "loop" => lanes'[w].index >= lanes[w].index
                  /\ \A k \in DataWritten : data[k] = Blank]_vars
    /\ [](run.name \in GenerationKernels =>
              \A w \in Grid(platform) :
                  Len(lanes[w].made)
                      <= (IF run.name = "generate_kernel" THEN 1 ELSE 2)
                             * Iterations(EngineId(platform, w), LoopLimit)
                         + 2)

====
